---- MODULE Spec2Model ----
(***************************************************************************)
(* A model of svent/go-nbreader (src/nbreader.go): NBReader, a non-blocking *)
(* io.Reader.  One goroutine (readInput) reads blocks from the underlying  *)
(* io.Reader and sends them on the unbuffered channel dataChan; Read, called*)
(* serially, receives from the channel under a timeout (readWithTimeout),   *)
(* appends to the bytes.Buffer and drains it into the caller's slice.       *)
(*                                                                         *)
(* Time is discrete.  Only the select of readWithTimeout lets time pass;    *)
(* the clock is re-based to 0 when Read is called, since the code only uses *)
(* differences of clock readings (lines 97, 104, 114).                      *)
(* The i-th byte the source returns has the value i, so that a lost, a      *)
(* doubled and a reordered byte all show.                                   *)
(***************************************************************************)
EXTENDS Integers, Sequences, FiniteSets, TLC

\* ------------------------------------------------------------ bounds
MaxBlock == 2
MaxBytes == 3
MaxLen == 3
MaxT == 3

\* The clock never has to pass the largest timeout; the margin lets a model
\* that overshoots the overall timeout show it.
Horizon == MaxT + 2

Errors == {"nil", "EOF", "other"}

VARIABLES
    blockSize,      \* NBReader.blockSize
    forceTimeout,   \* NBReader.forceTimeout (option Timeout)
    chunkTimeout,   \* NBReader.chunkTimeout (option ChunkTimeout)
    pcP,            \* readInput: "reading" | "sending" | "closing" | "done"
    chunk,          \* tmp[0:length], the value readInput is sending
    chanClosed,     \* dataChan has been closed
    produced,       \* every byte the underlying reader has returned so far
    srcErr,         \* the error of the underlying reader's last Read
    lost,           \* the bytes it returned together with an error
    buffer,         \* NBReader.buffer
    isEOF,          \* NBReader.isEOF
    pcR,            \* Read: "idle" | "called" | "waiting" (in the select)
    reqLen,         \* len(buffer) of the Read in progress
    start,          \* Read's local start
    lastStart,      \* Read's local lastStart
    nextTimeout,    \* Read's local nextTimeout
    now,            \* the clock
    delivered,      \* every byte Read calls have returned so far
    last,           \* what the last completed Read call did and returned
    bufAtCall,      \* r.buffer when the Read in progress was called
    eofAtCall,      \* r.isEOF when the Read in progress was called
    closedAtCall,   \* whether dataChan was closed when it was called
    received,       \* the bytes the Read in progress received from dataChan
    recvs,          \* the chunks it received (0, 1, 2 = two or more)
    lastArrival,    \* when it was called or last received a chunk
    eofReturned     \* some Read call has returned io.EOF

config == <<blockSize, forceTimeout, chunkTimeout>>
producer == <<pcP, chunk, chanClosed, produced, srcErr, lost>>
locals == <<reqLen, start, lastStart, nextTimeout>>
callobs == <<bufAtCall, eofAtCall, closedAtCall, received, recvs, lastArrival>>
vars == <<blockSize, forceTimeout, chunkTimeout, pcP, chunk, chanClosed,
          produced, srcErr, lost, buffer, isEOF, pcR, reqLen, start, lastStart,
          nextTimeout, now, delivered, last, bufAtCall, eofAtCall,
          closedAtCall, received, recvs, lastArrival, eofReturned>>

\* ------------------------------------------------------------ helpers
Min(a, b) == IF a <= b THEN a ELSE b

Take(s, n) == SubSeq(s, 1, Min(n, Len(s)))

Drop(s, n) == SubSeq(s, Min(n, Len(s)) + 1, Len(s))

IsPrefix(s, t) == Len(s) <= Len(t) /\ SubSeq(t, 1, Len(s)) = s

\* No call has completed since the last one was made.
NoRet == [valid |-> FALSE]

\* ------------------------------------------------------------ construction
\* NewNBReader: the channel is unbuffered and open, the buffer empty, the
\* options set the two timeouts (zero when not given), readInput is started.
Init ==
    /\ blockSize \in 1..MaxBlock
    /\ forceTimeout \in 0..MaxT
    /\ chunkTimeout \in 0..MaxT
    /\ pcP = "reading"
    /\ chunk = <<>>
    /\ chanClosed = FALSE
    /\ produced = <<>>
    /\ srcErr = "nil"
    /\ lost = <<>>
    /\ buffer = <<>>
    /\ isEOF = FALSE
    /\ pcR = "idle"
    /\ reqLen = 0
    /\ start = 0
    /\ lastStart = 0
    /\ nextTimeout = 0
    /\ now = 0
    /\ delivered = <<>>
    /\ last = NoRet
    /\ bufAtCall = <<>>
    /\ eofAtCall = FALSE
    /\ closedAtCall = FALSE
    /\ received = <<>>
    /\ recvs = 0
    /\ lastArrival = 0
    /\ eofReturned = FALSE

\* ------------------------------------------------------------ readInput
\* A readInput that leaves its loop on io.EOF only.
SourceFailedOnlyEOF(err) == err = "EOF"

\* Whether readInput leaves its loop on this result of reader.Read.
SourceFailed(err) == err # "nil"

\* A readInput whose channel has room: it reads on while a chunk waits.
SourceReadAhead(n, err) ==
    /\ pcP \in {"reading", "sending"}
    /\ Len(produced) + n <= MaxBytes
    /\ LET bytes == [i \in 1..n |-> Len(produced) + i]
       IN /\ produced' = produced \o bytes
          /\ srcErr' = err
          /\ IF SourceFailed(err)
                THEN pcP' = "closing" /\ chunk' = <<>> /\ lost' = chunk \o bytes
                ELSE pcP' = "sending" /\ chunk' = chunk \o bytes /\ lost' = lost
    /\ UNCHANGED <<config, chanClosed, buffer, isEOF, pcR, locals, now,
                   delivered, last, callobs, eofReturned>>

\* A readInput that sends the bytes of a read before it looks at the error.
SourceReadSendsFirst(n, err) ==
    /\ pcP = "reading"
    /\ Len(produced) + n <= MaxBytes
    /\ LET bytes == [i \in 1..n |-> Len(produced) + i]
       IN /\ produced' = produced \o bytes
          /\ srcErr' = err
          /\ IF SourceFailed(err) /\ n = 0
                THEN pcP' = "closing" /\ chunk' = <<>> /\ lost' = bytes
                ELSE pcP' = "sending" /\ chunk' = bytes /\ lost' = lost
    /\ UNCHANGED <<config, chanClosed, buffer, isEOF, pcR, locals, now,
                   delivered, last, callobs, eofReturned>>

\* One r.reader.Read(tmp) of readInput: the source returns n bytes
\* (0 <= n <= blockSize) and an error, as io.Reader allows, n > 0 with an
\* error included.  On an error the loop is left and the bytes are not sent.
SourceRead(n, err) ==
    /\ pcP = "reading"
    /\ Len(produced) + n <= MaxBytes
    /\ LET bytes == [i \in 1..n |-> Len(produced) + i]
       IN /\ produced' = produced \o bytes
          /\ srcErr' = err
          /\ IF SourceFailed(err)
                THEN pcP' = "closing" /\ chunk' = <<>> /\ lost' = bytes
                ELSE pcP' = "sending" /\ chunk' = bytes /\ lost' = lost
    /\ UNCHANGED <<config, chanClosed, buffer, isEOF, pcR, locals, now,
                   delivered, last, callobs, eofReturned>>

\* close(r.dataChan), after the loop.
ProducerClose ==
    /\ pcP = "closing"
    /\ pcP' = "done"
    /\ chanClosed' = TRUE
    /\ UNCHANGED <<config, chunk, produced, srcErr, lost, buffer, isEOF,
                   pcR, locals, now, delivered, last, callobs, eofReturned>>

\* ------------------------------------------------------------ Read
\* A bytes.Buffer.Read that copies out and does not advance its read offset.
BufferReadNoAdvance(buf, L) ==
    IF Len(buf) = 0
       THEN [n |-> 0, err |-> IF L = 0 THEN "nil" ELSE "EOF",
             data |-> <<>>, rest |-> buf]
       ELSE [n |-> Min(L, Len(buf)), err |-> "nil",
             data |-> Take(buf, L), rest |-> buf]

\* bytes.Buffer.Read(p) with len(p) = L: an empty buffer gives (0, io.EOF),
\* or (0, nil) when L = 0; otherwise the first min(L, Len) bytes are copied
\* out and removed.
BufferRead(buf, L) ==
    IF Len(buf) = 0
       THEN [n |-> 0, err |-> IF L = 0 THEN "nil" ELSE "EOF",
             data |-> <<>>, rest |-> buf]
       ELSE [n |-> Min(L, Len(buf)), err |-> "nil",
             data |-> Take(buf, L), rest |-> Drop(buf, L)]

\* A write that puts the data in front of what the buffer holds.
BufferWritePrepend(buf, data) == data \o buf

\* bytes.Buffer.Write(data).
BufferWrite(buf, data) == buf \o data

\* Line 86: the fast path's condition.
FastPath(L, buf) == L <= Len(buf)

\* A loop that goes on only while the buffer is empty.
LoopCondEmptyOnly(buf, L) == Len(buf) = 0 /\ 0 < L

\* Line 95: the loop's condition.
LoopCond(buf, L) == Len(buf) < L

\* Line 97.
Remaining(t) == forceTimeout - (t - start)

\* A timeout that is not cut to what remains of the overall timeout.
NextTimeoutNoClamp(remaining) ==
    IF chunkTimeout = 0 THEN remaining ELSE chunkTimeout

\* A timeout that ignores the chunk timeout.
NextTimeoutNoChunk(remaining) == remaining

\* A choice of timeout that takes a chunk timeout as it is.
NextTimeoutForNoClamp(c, remaining) == IF c = 0 THEN remaining ELSE c

\* Lines 98-102, for an NBReader whose chunkTimeout is c.
NextTimeoutFor(c, remaining) ==
    IF c = 0 \/ c > remaining
       THEN remaining
       ELSE c

\* Lines 98-102.
NextTimeout(remaining) == NextTimeoutFor(chunkTimeout, remaining)

\* A chunk-idle test that does not ask whether the select timed out.
ChunkIdleAnyErr(err, duration) == duration >= chunkTimeout

\* Lines 105-109.
ChunkIdle(err, duration) == err = "timeout" /\ duration >= chunkTimeout

\* Lines 110-113.
SawEOF(err) == err = "EOF"

\* An overall-timeout test with > for >=.
OverallExpiredStrict(elapsed) == elapsed > forceTimeout

\* Lines 114-116.
OverallExpired(elapsed) == elapsed >= forceTimeout

\* Lines 87-88: the error of buffer.Read is dropped, nil is returned.
FastErr(readErr) == "nil"

\* An end-of-stream path that drops the error of buffer.Read as well.
EOFPathErrDropped(readErr) == "nil"

\* Line 92: the error of buffer.Read is returned.
EOFPathErr(readErr) == readErr

\* A loop exit that returns what buffer.Read returns, as line 92 does.
LoopErrFromRead(selErr, readErr) == readErr

\* A loop exit that returns the error of readWithTimeout.
LoopErrLeak(selErr, readErr) == selErr

\* Lines 118-119: the error of readWithTimeout stays in the loop and the
\* error of buffer.Read is dropped, nil is returned.
LoopErr(selErr, readErr) == "nil"

\* A Read call returns: r is what buffer.Read gave, err the error returned.
Return(r, err, stop) ==
    /\ buffer' = r.rest
    /\ delivered' = delivered \o r.data
    /\ eofReturned' = (eofReturned \/ err = "EOF")
    /\ last' = [valid |-> TRUE, len |-> reqLen, n |-> r.n, err |-> err,
                data |-> r.data, stop |-> stop,
                bufBefore |-> bufAtCall, eofBefore |-> eofAtCall,
                closedBefore |-> closedAtCall,
                received |-> received', recvs |-> recvs',
                elapsed |-> now' - start,
                idleFor |-> now' - lastArrival']
    /\ pcR' = "idle"
    /\ reqLen' = 0
    /\ start' = 0
    /\ lastStart' = 0
    /\ nextTimeout' = 0

\* The caller invokes Read with a slice of length L (lines 78-84).
ReadCall(L) ==
    /\ pcR = "idle"
    /\ pcR' = "called"
    /\ reqLen' = L
    /\ now' = 0
    /\ start' = now'
    /\ lastStart' = now'
    /\ nextTimeout' = 0
    /\ last' = NoRet
    /\ bufAtCall' = buffer
    /\ eofAtCall' = isEOF
    /\ closedAtCall' = chanClosed
    /\ received' = <<>>
    /\ recvs' = 0
    /\ lastArrival' = now'
    /\ UNCHANGED <<config, producer, buffer, isEOF, delivered, eofReturned>>

\* A Read without the fast path whose loop tests its condition at the end
\* only: it goes to the select whatever the buffer holds.
ReadBodyWaitsFirst ==
    /\ pcR = "called"
    /\ UNCHANGED <<config, producer, isEOF, now, callobs>>
    /\ IF isEOF
          THEN LET r == BufferRead(buffer, reqLen)
               IN Return(r, EOFPathErr(r.err), "eof")
          ELSE /\ pcR' = "waiting"
               /\ lastStart' = now
               /\ nextTimeout' = NextTimeout(Remaining(now))
               /\ UNCHANGED <<buffer, delivered, last, eofReturned, reqLen,
                              start>>

\* A Read that does not look at isEOF before its loop.
ReadBodyNoEOFCheck ==
    /\ pcR = "called"
    /\ UNCHANGED <<config, producer, isEOF, now, callobs>>
    /\ IF FastPath(reqLen, buffer)
          THEN LET r == BufferRead(buffer, reqLen)
               IN Return(r, FastErr(r.err), "fast")
          ELSE IF LoopCond(buffer, reqLen)
          THEN /\ pcR' = "waiting"
               /\ lastStart' = now
               /\ nextTimeout' = NextTimeout(Remaining(now))
               /\ UNCHANGED <<buffer, delivered, last, eofReturned, reqLen,
                              start>>
          ELSE LET r == BufferRead(buffer, reqLen)
               IN Return(r, LoopErr("nil", r.err), "full")

\* Lines 86-103: the fast path, the path after end-of-stream, or the entry
\* into the loop up to the select of readWithTimeout.
ReadBody ==
    /\ pcR = "called"
    /\ UNCHANGED <<config, producer, isEOF, now, callobs>>
    /\ IF FastPath(reqLen, buffer)
          THEN LET r == BufferRead(buffer, reqLen)
               IN Return(r, FastErr(r.err), "fast")
          ELSE IF isEOF
          THEN LET r == BufferRead(buffer, reqLen)
               IN Return(r, EOFPathErr(r.err), "eof")
          ELSE IF LoopCond(buffer, reqLen)
          THEN /\ pcR' = "waiting"
               /\ lastStart' = now
               /\ nextTimeout' = NextTimeout(Remaining(now))
               /\ UNCHANGED <<buffer, delivered, last, eofReturned, reqLen,
                              start>>
          ELSE LET r == BufferRead(buffer, reqLen)
               IN Return(r, LoopErr("nil", r.err), "full")

\* Lines 104-119: after readWithTimeout returned err with r.buffer = buf.
AfterSelect(err, buf) ==
    LET duration == now - lastStart
        elapsed == now - start
        stop == IF ChunkIdle(err, duration) THEN "chunk"
                ELSE IF SawEOF(err) THEN "closed"
                ELSE IF OverallExpired(elapsed) THEN "overall"
                ELSE IF ~LoopCond(buf, reqLen) THEN "full"
                ELSE "none"
    IN /\ isEOF' = (isEOF \/ (~ChunkIdle(err, duration) /\ SawEOF(err)))
       /\ now' = now
       /\ IF stop # "none"
             THEN LET r == BufferRead(buf, reqLen)
                  IN Return(r, LoopErr(err, r.err), stop)
             ELSE /\ buffer' = buf
                  /\ lastStart' = now
                  /\ nextTimeout' = NextTimeout(Remaining(now))
                  /\ UNCHANGED <<pcR, reqLen, start, delivered, last,
                                 eofReturned>>

\* readWithTimeout, case data, ok := <-r.dataChan with a sender waiting: the
\* chunk is written to r.buffer and readInput goes on to its next read.
Recv ==
    /\ pcR = "waiting"
    /\ pcP = "sending"
    /\ pcP' = "reading"
    /\ chunk' = <<>>
    /\ received' = received \o chunk
    /\ recvs' = Min(recvs + 1, 2)
    /\ lastArrival' = now
    /\ UNCHANGED <<config, chanClosed, produced, srcErr, lost, bufAtCall,
                   eofAtCall, closedAtCall>>
    /\ AfterSelect("nil", BufferWrite(buffer, chunk))

\* readWithTimeout, case data, ok := <-r.dataChan on the closed channel:
\* data is nil, ok is false, io.EOF is returned.
RecvClosed ==
    /\ pcR = "waiting"
    /\ chanClosed
    /\ UNCHANGED <<config, producer, callobs>>
    /\ AfterSelect("EOF", BufferWrite(buffer, <<>>))

\* readWithTimeout, case <-time.After(timeout): the timer has fired (at once
\* when timeout <= 0, also with the channel ready: select then picks either).
Timeout ==
    /\ pcR = "waiting"
    /\ now >= lastStart + nextTimeout
    /\ UNCHANGED <<config, producer, callobs>>
    /\ AfterSelect("timeout", buffer)

\* Time passes while Read waits in the select: the timer has not fired and
\* the channel has nothing to receive (no sender waiting, not closed, and
\* readInput not between its loop and its close).
Tick ==
    /\ pcR = "waiting"
    /\ now < lastStart + nextTimeout
    /\ pcP = "reading"
    /\ ~chanClosed
    /\ now < Horizon
    /\ now' = now + 1
    /\ UNCHANGED <<config, producer, buffer, isEOF, pcR, locals, delivered,
                   last, callobs, eofReturned>>

\* ------------------------------------------------------------ specification
Next ==
    \/ \E n \in 0..MaxBlock, err \in Errors : n <= blockSize /\ SourceRead(n, err)
    \/ ProducerClose
    \/ \E L \in 0..MaxLen : ReadCall(L)
    \/ ReadBody
    \/ Recv
    \/ RecvClosed
    \/ Timeout
    \/ Tick

Spec == Init /\ [][Next]_vars

\* The caller invokes Read with a slice that is not empty.
ReadCallPos == \E L \in 1..MaxLen : ReadCall(L)

\* The scheduling the Go runtime gives: readInput gets to close the channel,
\* Read runs once called, a fired timer is received, select picks every case
\* that is ready again and again (it chooses among the ready cases at
\* random), and time does not stand still for ever.  The caller keeps
\* calling Read with a slice that is not empty.  Nothing makes the
\* underlying reader return.
FairSpec ==
    /\ Spec
    /\ WF_vars(ProducerClose)
    /\ SF_vars(ReadCallPos)
    /\ WF_vars(ReadBody)
    /\ WF_vars(Recv)
    /\ SF_vars(RecvClosed)
    /\ WF_vars(Timeout)
    /\ SF_vars(Tick)

\* ------------------------------------------------------------ claims

\* C1: whatever the interleaving of readInput's steps and of serial Read
\* calls of any lengths, the bytes all Read calls have returned so far, in
\* the order returned, are a prefix of the bytes the source has produced so
\* far: none is delivered twice, out of order or without being produced.
C1_DeliveredIsPrefix == IsPrefix(delivered, produced)

\* A second Read call has just returned bytes after an earlier one did, and
\* bytes it did not ask for stay buffered.
C1_Witness ==
    /\ pcR = "idle" /\ last.valid
    /\ last.n >= 1
    /\ Len(delivered) > last.n
    /\ Len(buffer) >= 1

\* C2: when a Read call returns io.EOF, the bytes returned by all Read calls
\* are all the bytes the source produced: nothing is lost.
C2_NothingLostAtEOF ==
    (pcR = "idle" /\ last.valid /\ last.err = "EOF") => delivered = produced

\* C3: once the source has signalled exhaustion, a caller that keeps calling
\* Read gets, under fair scheduling and for every timeout configuration,
\* a Read call that returns (0, io.EOF); and once a call has returned io.EOF,
\* every later call with L > 0 returns (0, io.EOF) too.
C3_EventuallyEOF ==
    /\ (pcP \in {"closing", "done"})
          ~> (pcR = "idle" /\ last.valid /\ last.n = 0 /\ last.err = "EOF")
    /\ []((eofReturned /\ pcR = "idle" /\ last.valid /\ last.len > 0)
             => (last.n = 0 /\ last.err = "EOF"))

\* A Read call with L > 0, made after end-of-stream was seen and the buffer
\* was drained of bytes delivered earlier, has returned (0, io.EOF).
C3_Witness ==
    /\ pcR = "idle" /\ last.valid
    /\ last.len > 0 /\ last.n = 0 /\ last.err = "EOF"
    /\ last.eofBefore /\ last.bufBefore = <<>>
    /\ Len(delivered) >= 2

\* C4: Read returns io.EOF only from a call that returns 0 bytes with the
\* buffer empty and the channel closed; a call made with bytes in the buffer
\* and L > 0 (after the source is exhausted too) returns at least one byte,
\* the first bytes of the buffer, and no error.
C4_EOFOnlyWhenDrained ==
    (pcR = "idle" /\ last.valid) =>
        /\ last.err = "EOF" =>
              /\ last.n = 0 /\ last.data = <<>>
              /\ last.bufBefore = <<>> /\ buffer = <<>>
              /\ chanClosed
        /\ (last.bufBefore # <<>> /\ last.len > 0) =>
              /\ last.n >= 1 /\ last.err = "nil"
              /\ last.data = Take(last.bufBefore \o last.received, last.len)

\* A call made after readInput closed the channel, with fewer bytes
\* buffered than asked for, has returned those bytes and no error.
C4_Witness ==
    /\ pcR = "idle" /\ last.valid
    /\ last.closedBefore
    /\ last.bufBefore # <<>> /\ last.len > Len(last.bufBefore)
    /\ last.n = Len(last.bufBefore) /\ last.err = "nil"

\* C5: a Read called with L <= the bytes buffered (L = 0 and end-of-stream
\* included) returns in its next step exactly the first L bytes and no
\* error, no time passes, and the channel, the chunk pending on it and the
\* end-of-stream flag are left as they were.
C5_FastPathFrame ==
    [][(pcR = "called" /\ reqLen <= Len(buffer) /\ pcR' # "called") =>
          /\ pcR' = "idle" /\ last'.valid
          /\ last'.n = reqLen /\ last'.err = "nil"
          /\ last'.data = SubSeq(buffer, 1, reqLen)
          /\ buffer' = SubSeq(buffer, reqLen + 1, Len(buffer))
          /\ last'.elapsed = 0 /\ last'.recvs = 0
          /\ UNCHANGED <<pcP, chunk, chanClosed, isEOF, now>>]_vars

\* A call with 1 <= L <= the bytes buffered has returned while readInput
\* is still waiting to send a chunk.
C5_Witness ==
    /\ pcR = "idle" /\ last.valid
    /\ last.len >= 1 /\ last.len <= Len(last.bufBefore)
    /\ last.n = last.len
    /\ pcP = "sending" /\ chunk # <<>>

\* C6: the only errors Read returns are nil and io.EOF, never the internal
\* timeout error; a call that stops on the chunk timeout or on the overall
\* timeout returns (n, nil) with 0 <= n <= L.
C6_NoTimeoutError ==
    (pcR = "idle" /\ last.valid) =>
        /\ last.err \in {"nil", "EOF"}
        /\ last.stop \in {"chunk", "overall"} =>
              (last.err = "nil" /\ last.n >= 0 /\ last.n <= last.len)

\* A call has waited its chunk timeout for nothing and returned (0, nil).
C6_Witness ==
    /\ pcR = "idle" /\ last.valid
    /\ last.stop = "chunk" /\ last.elapsed > 0
    /\ last.len > 0 /\ last.n = 0 /\ last.err = "nil"

\* C7: a Read call never waits past the overall timeout, it returns no
\* later than forceTimeout after it was called, and every call returns.
C7_ReturnsWithinT ==
    /\ [](pcR # "idle" => now - start <= forceTimeout)
    /\ []((pcR = "idle" /\ last.valid) => last.elapsed <= forceTimeout)
    /\ (pcR # "idle") ~> (pcR = "idle")

\* A call that received a chunk one time unit before the overall timeout
\* has returned exactly at the overall timeout.
C7_Witness ==
    /\ pcR = "idle" /\ last.valid
    /\ forceTimeout >= 2
    /\ last.recvs >= 1 /\ last.idleFor = 1
    /\ last.elapsed = forceTimeout

\* C8: with 0 < chunkTimeout < forceTimeout a Read call never waits longer
\* than chunkTimeout since it was called or last received a chunk; a call
\* that has gone that long without a chunk returns then, with no error and
\* with the bytes accumulated so far (up to L).
C8_ChunkIdleReturn ==
    (0 < chunkTimeout /\ chunkTimeout < forceTimeout) =>
        /\ pcR = "waiting" => now - lastArrival <= chunkTimeout
        /\ (pcR = "idle" /\ last.valid /\ last.idleFor >= chunkTimeout) =>
              /\ last.idleFor = chunkTimeout
              /\ last.err = "nil"
              /\ last.data = Take(last.bufBefore \o last.received, last.len)
              /\ last.n = Len(last.data)

\* One chunk of 2 bytes arrived after the call began, then nothing for
\* chunkTimeout: the call returned the 2 bytes before the overall timeout.
C8_Witness ==
    /\ pcR = "idle" /\ last.valid
    /\ 0 < chunkTimeout /\ chunkTimeout < forceTimeout
    /\ last.len = 3 /\ last.bufBefore = <<>>
    /\ last.recvs = 1 /\ Len(last.received) = 2 /\ last.n = 2
    /\ last.idleFor = chunkTimeout
    /\ last.elapsed > chunkTimeout /\ last.elapsed < forceTimeout

\* C9: with 0 < chunkTimeout < forceTimeout, a Read call that returns without
\* having reached L or seen the channel closed, and less than chunkTimeout
\* after its last chunk, returns at the overall timeout and not before, with
\* all it has accumulated and no error.
C9_KeepsWaitingUntilT ==
    (/\ pcR = "idle" /\ last.valid
     /\ 0 < chunkTimeout /\ chunkTimeout < forceTimeout
     /\ ~last.eofBefore /\ ~isEOF
     /\ Len(last.bufBefore) + Len(last.received) < last.len
     /\ last.idleFor < chunkTimeout)
    => /\ last.elapsed = forceTimeout
       /\ last.err = "nil"
       /\ last.data = last.bufBefore \o last.received
       /\ last.n = Len(last.data)

\* Chunks arrived with gaps shorter than chunkTimeout, the last one before
\* the overall timeout; the call returned them at the overall timeout.
C9_Witness ==
    /\ pcR = "idle" /\ last.valid
    /\ 0 < chunkTimeout /\ chunkTimeout < forceTimeout
    /\ ~isEOF
    /\ last.recvs = 2 /\ Len(last.received) = 2 /\ last.len = 3
    /\ last.idleFor > 0 /\ last.idleFor < chunkTimeout
    /\ last.elapsed = forceTimeout /\ last.n = 2

\* C10 as stated: with both timeouts zero every Read call returns at once
\* with what the buffer held when it was called.
C10_OnlyBufferedAtCall ==
    (forceTimeout = 0 /\ chunkTimeout = 0 /\ pcR = "idle" /\ last.valid) =>
        /\ last.elapsed = 0
        /\ last.data = Take(last.bufBefore, last.len)

\* C10 amended: with both timeouts zero no time passes in a Read call, and
\* it returns the first L bytes of what the buffer held when it was called
\* followed by at most one chunk it received from the channel at once.
C10_ImmediateReturn ==
    (forceTimeout = 0 /\ chunkTimeout = 0) =>
        /\ pcR # "idle" => now = start
        /\ (pcR = "idle" /\ last.valid) =>
              /\ last.elapsed = 0
              /\ last.recvs <= 1
              /\ last.err \in {"nil", "EOF"}
              /\ last.data = Take(last.bufBefore \o last.received, last.len)
              /\ last.n = Len(last.data)

\* With both timeouts zero a call made with one byte buffered has returned
\* that byte and the chunk readInput was waiting to send.
C10_Witness ==
    /\ pcR = "idle" /\ last.valid
    /\ forceTimeout = 0 /\ chunkTimeout = 0
    /\ Len(last.bufBefore) = 1 /\ last.recvs = 1 /\ last.received # <<>>
    /\ last.n = 1 + Len(last.received)

\* C11: once the buffer holds at least blockSize bytes Read stops waiting
\* on the channel and returns, whatever L and the timeouts are: Read is
\* never in the select with blockSize bytes or more in the buffer.
C11_ReturnsAtBlockSize ==
    pcR = "waiting" => Len(buffer) < blockSize

\* C12: the Read call that reaches the end of the stream returns io.EOF
\* together with the data it still read, so that the first io.EOF can come
\* with n > 0: a call that has seen the channel closed and returns bytes
\* returns io.EOF.
C12_DataWithFirstEOF ==
    (pcR = "idle" /\ last.valid /\ isEOF /\ ~last.eofBefore /\ last.n > 0)
        => last.err = "EOF"

\* C13: isEOF is set only by a Read that is in the select and finds the
\* channel closed, it is never reset, and it implies that the channel is
\* closed; once it is set Read is never in the select again: every later
\* call returns having received nothing and with no time passed.
C13_EOFFlag ==
    /\ [](isEOF => chanClosed)
    /\ [][isEOF => isEOF']_vars
    /\ [][(~isEOF /\ isEOF') => (pcR = "waiting" /\ chanClosed)]_vars
    /\ [](isEOF => pcR # "waiting")
    /\ []((pcR = "idle" /\ last.valid /\ last.eofBefore) =>
             /\ last.recvs = 0
             /\ last.received = <<>>
             /\ last.elapsed = 0
             /\ last.stop \in {"fast", "eof"})

\* A call for bytes made with isEOF set, and timeouts that would let it
\* wait, has returned.
C13_Witness ==
    /\ pcR = "idle" /\ last.valid
    /\ last.eofBefore /\ last.len >= 1
    /\ forceTimeout >= 1
    /\ last.err = "EOF"

\* C14: readInput leaves its loop at the first error of the source, io.EOF
\* or any other alike, sending nothing of that read, and then closes the
\* channel, once; the channel is closed by that step of readInput only, and
\* after the close readInput reads and sends nothing more.
C14_StopsAtFirstError ==
    /\ [][(pcP = "reading" /\ pcP' # "reading") =>
             IF srcErr' # "nil"
                THEN pcP' = "closing" /\ chunk' = <<>>
                ELSE pcP' = "sending"]_vars
    /\ []((srcErr # "nil") <=> (pcP \in {"closing", "done"}))
    /\ [][pcP = "closing" =>
             (pcP' = "closing" /\ UNCHANGED producer)
             \/ (pcP' = "done" /\ chanClosed'
                 /\ UNCHANGED <<chunk, produced, srcErr, lost>>)]_vars
    /\ [][chanClosed' # chanClosed =>
             (pcP = "closing" /\ pcP' = "done" /\ ~chanClosed)]_vars
    /\ [](chanClosed <=> pcP = "done")
    /\ [][pcP = "done" => UNCHANGED producer]_vars

\* readInput has closed the channel after an error other than io.EOF that
\* followed a read it had forwarded, and a Read call has returned since.
C14_Witness ==
    /\ chanClosed /\ pcP = "done"
    /\ srcErr = "other"
    /\ delivered # <<>>
    /\ pcR = "idle" /\ last.valid /\ last.closedBefore

\* C15: at most one chunk read from the source is not yet in the buffer:
\* the bytes taken from the source and neither buffered nor returned are
\* never more than blockSize, and while a chunk waits to be sent readInput
\* does nothing until a Read call in the select receives it.
C15_Backpressure ==
    /\ [](Len(produced) - Len(delivered) - Len(buffer) <= blockSize)
    /\ [](Len(chunk) <= blockSize)
    /\ [](pcP # "sending" => chunk = <<>>)
    /\ [](pcP = "sending" =>
             Len(produced) = Len(delivered) + Len(buffer) + Len(chunk))
    /\ [][pcP = "sending" =>
             \/ UNCHANGED producer
             \/ /\ pcR = "waiting"
                /\ pcP' = "reading"
                /\ received' = received \o chunk
                /\ Len(delivered') + Len(buffer') =
                      Len(delivered) + Len(buffer) + Len(chunk)
                /\ UNCHANGED produced]_vars
    /\ [][produced' # produced => (pcP = "reading" /\ chunk = <<>>)]_vars

\* readInput waits to send a chunk of blockSize bytes, more than one, while
\* bytes of an earlier chunk are in the buffer.
C15_Witness ==
    /\ pcP = "sending"
    /\ blockSize = MaxBlock
    /\ Len(chunk) = blockSize
    /\ buffer # <<>>

\* C16: whatever ended a Read call of length L, the count it returned is
\* min(L, bytes in the buffer when it drained), that is, of what the buffer
\* held at the call followed by what the call received; the bytes returned
\* are the first that many of these, the rest stays in the buffer in order,
\* and the count is not more than L.
C16_DrainsUpToL ==
    (pcR = "idle" /\ last.valid) =>
        LET atDrain == last.bufBefore \o last.received
        IN /\ last.n = Min(last.len, Len(atDrain))
           /\ last.n <= last.len
           /\ last.data = Take(atDrain, last.len)
           /\ Len(last.data) = last.n
           /\ buffer = Drop(atDrain, last.len)
           /\ last.stop \in {"fast", "eof", "full", "chunk", "closed",
                             "overall"}

\* A call that received a chunk has returned as many bytes as it asked for
\* and left a byte in the buffer.
C16_Witness ==
    /\ pcR = "idle" /\ last.valid
    /\ last.recvs >= 1
    /\ last.len >= 1 /\ last.n = last.len
    /\ buffer # <<>>

\* C17: a Read call that receives a chunk which leaves the buffer short of
\* L, before the overall timeout has passed, appends the chunk and goes back
\* to the select instead of returning; a call returns fewer than L bytes
\* only on a timeout or at the end of the stream.
C17_KeepsReceiving ==
    /\ [][(/\ pcR = "waiting" /\ pcP = "sending" /\ pcP' = "reading"
           /\ Len(buffer) + Len(chunk) < reqLen
           /\ now - start < forceTimeout)
          => (/\ pcR' = "waiting"
              /\ buffer' = buffer \o chunk
              /\ UNCHANGED <<delivered, last, reqLen, start>>)]_vars
    /\ []((pcR = "idle" /\ last.valid /\ last.n < last.len) =>
             last.stop \in {"eof", "chunk", "closed", "overall"})

\* The scenario with blockSize 2 for 4: no chunk timeout, the largest
\* overall timeout, the source yields one byte, another byte, then io.EOF;
\* one Read of length 2 made on the empty buffer has returned both bytes
\* with nil after two chunk arrivals, before the timeout.
C17_Witness ==
    /\ blockSize = 2 /\ chunkTimeout = 0 /\ forceTimeout = MaxT
    /\ pcR = "idle" /\ last.valid
    /\ last.len = 2 /\ last.bufBefore = <<>>
    /\ last.recvs = 2
    /\ last.n = 2 /\ last.data = <<1, 2>> /\ last.err = "nil"
    /\ last.elapsed < forceTimeout
    /\ produced = <<1, 2>> /\ srcErr = "EOF"

\* C18: readInput sends a chunk only after a source read that returned
\* bytes and no error: every chunk it offers on the channel holds between 1
\* and blockSize bytes, the bytes of that read.
C18_ChunksNonEmpty ==
    pcP = "sending" =>
        /\ 1 <= Len(chunk) /\ Len(chunk) <= blockSize
        /\ srcErr = "nil"
        /\ chunk = SubSeq(produced, Len(produced) - Len(chunk) + 1,
                          Len(produced))

\* The values a sequence holds.
Range(s) == {s[i] : i \in 1..Len(s)}

\* C19: readInput forwards the bytes of a source read exactly when the read
\* returned no error: the bytes of a read that returned an error are not
\* offered on the channel, and are never in the buffer nor in what a Read
\* call returns; all other bytes are returned, buffered or waiting to be
\* sent, in the order produced.
C19_ForwardsIffNoError ==
    /\ [][(pcP = "reading" /\ pcP' # "reading") =>
             LET new == SubSeq(produced', Len(produced) + 1, Len(produced'))
             IN IF srcErr' = "nil"
                   THEN pcP' = "sending" /\ chunk' = new /\ lost' = lost
                   ELSE pcP' = "closing" /\ chunk' = <<>> /\ lost' = new]_vars
    /\ [](produced = delivered \o buffer \o chunk \o lost)
    /\ [](Range(lost) \cap Range(delivered \o buffer \o chunk) = {})
    /\ []((pcR = "idle" /\ last.valid) =>
             Range(lost) \cap Range(last.data \o last.received) = {})

\* The source returned a byte together with an error after bytes that were
\* forwarded; Read calls have returned the forwarded bytes and then io.EOF.
C19_Witness ==
    /\ lost # <<>>
    /\ delivered # <<>>
    /\ eofReturned
    /\ pcR = "idle" /\ last.valid /\ last.err = "EOF"
    /\ Len(delivered) + Len(lost) = Len(produced)

\* C20: with chunkTimeout >= forceTimeout Read does in every state what an
\* NBReader with the same forceTimeout and no chunk timeout does in it: in
\* the select it waits with the timeout that one would choose, and after
\* the select it returns exactly when that one would (on every timeout, on
\* the closed channel, and after a chunk when the overall timeout has passed
\* or the buffer holds L bytes); so that counts, errors and times of return
\* are the same for the same arrivals.
C20_AsWithoutChunkTimeout ==
    /\ []((chunkTimeout >= forceTimeout /\ pcR = "waiting") =>
             nextTimeout = NextTimeoutFor(0, Remaining(lastStart)))
    /\ [][(chunkTimeout >= forceTimeout /\ pcR = "waiting"
           /\ now' = now /\ pcP' = pcP) =>
             /\ pcR' = "idle"
             /\ last'.err = "nil"
             /\ last'.n = Min(reqLen, Len(buffer))]_vars
    /\ [][(chunkTimeout >= forceTimeout /\ pcR = "waiting"
           /\ pcP = "sending" /\ pcP' = "reading") =>
             (pcR' = "idle" <=>
                 (now - start >= forceTimeout
                  \/ Len(buffer) + Len(chunk) >= reqLen))]_vars
    /\ []((chunkTimeout >= forceTimeout /\ pcR = "idle" /\ last.valid) =>
             /\ last.elapsed <= forceTimeout
             /\ (last.stop \in {"chunk", "overall"} /\ last.recvs >= 1) =>
                   last.elapsed >= forceTimeout)

\* With a chunk timeout larger than the overall timeout a call that
\* received a chunk short of L has waited on, past the chunk's arrival, and
\* has returned at the overall timeout.
C20_Witness ==
    /\ chunkTimeout > forceTimeout /\ forceTimeout >= 2
    /\ pcR = "idle" /\ last.valid
    /\ last.recvs >= 1 /\ last.n >= 1 /\ last.n < last.len
    /\ last.elapsed = forceTimeout
    /\ last.idleFor >= 1 /\ last.idleFor < forceTimeout
    /\ last.err = "nil"

====
